---- MODULE Spec2Model ----
(***************************************************************************)
(* Task-Manager API: the token service (src/utils/jwt.ts), the auth,       *)
(* category and task route handlers (src/routes/*.ts) and the Prisma       *)
(* schema they run against, as a state machine.                            *)
(*                                                                         *)
(* Time is the clock in whole seconds (the resolution of the iat and exp   *)
(* fields of a JSON Web Token).  In the specifications below the server    *)
(* serves one request at a time, each handler in one atomic action.        *)
(***************************************************************************)
EXTENDS Integers, Sequences, FiniteSets, Bags, TLC

VARIABLES
    env,            \* process.env: JWT_SECRET, JWT_REFRESH_SECRET
    now,            \* the clock, in seconds
    users,          \* table "users"
    categories,     \* table "categories"
    tasks,          \* table "tasks"
    nextUserId,     \* next fresh id (cuid) of each table
    nextCatId,
    nextTaskId,
    accessTokens,   \* tokens handed to clients as "token"
    refreshTokens,  \* tokens handed to clients as "refreshToken"
    req,            \* the request served last
    resp,           \* and the response it got
    pending         \* the requests whose handler is at an await

vars == <<env, now, users, categories, tasks, nextUserId, nextCatId, nextTaskId,
          accessTokens, refreshTokens, req, resp, pending>>

storeVars == <<users, categories, tasks, nextUserId, nextCatId, nextTaskId>>

(***************************************************************************)
(* Bounds of the model.                                                    *)
(***************************************************************************)
MaxUsers == 2
MaxCats == 2
MaxTasks == 1
MaxTime == 2
\* JWT_EXPIRE and JWT_REFRESH_EXPIRE, in seconds of the model's clock
AccessTTL == 1
RefreshTTL == 2

(***************************************************************************)
(* Values.                                                                 *)
(***************************************************************************)
Unset == ""
NullId == 0
NullDate == -1
NullText == <<>>

AccessSecret == "access-secret"
RefreshSecret == "refresh-secret"

Statuses == {"PENDING", "IN_PROGRESS", "COMPLETED", "CANCELLED"}

UserIds == 1..MaxUsers
CatIds == 1..MaxCats
TaskIds == 1..MaxTasks

Has(body, f) == f \in DOMAIN body

\* JS truthiness of an optional body field: undefined is falsy
Truthy(body, f) == Has(body, f)

(***************************************************************************)
(* Responses.                                                              *)
(***************************************************************************)
NoData == [kind |-> "none"]

Res(status, message, data) == [status |-> status, message |-> message, data |-> data]

\* middleware/errorHandler (asyncHandler hands a thrown error to it)
internalError == Res(500, "Internal Server Error", NoData)

validationError == Res(400, "Validation error", NoData)

\* middleware/auth: the answer of protect to a request it does not accept
unauthenticated == Res(401, "Not authorized", NoData)

(***************************************************************************)
(* Token service.                                                          *)
(***************************************************************************)
\* jwt.sign(payload, secret, {expiresIn, issuer}): key stands for the HMAC of
\* header and payload under secret
jwtSign(userId, secret, ttl) ==
    [form |-> "jwt", id |-> userId, iat |-> now, exp |-> now + ttl,
     iss |-> "task-manager-api", key |-> secret]

\* verification that does not look at the expiry
jwtVerifyIgnoreExpiration(token, secret) ==
    /\ token.form = "jwt"
    /\ token.key = secret

\* jwt.verify(token, secret): well-formed, signed under secret, not expired
\* (jsonwebtoken rejects once clockTimestamp >= exp)
jwtVerify(token, secret) ==
    /\ token.form = "jwt"
    /\ token.key = secret
    /\ now < token.exp

Threw(msg) == [ok |-> FALSE, error |-> msg]

\* an access token signed with the refresh secret
generateAccessTokenWithRefreshSecret(userId) ==
    IF env.JWT_SECRET = Unset
    THEN Threw("JWT_SECRET environment variable is not set")
    ELSE [ok |-> TRUE, token |-> jwtSign(userId, env.JWT_REFRESH_SECRET, AccessTTL)]

generateAccessToken(userId) ==
    IF env.JWT_SECRET = Unset
    THEN Threw("JWT_SECRET environment variable is not set")
    ELSE [ok |-> TRUE, token |-> jwtSign(userId, env.JWT_SECRET, AccessTTL)]

\* a refresh token signed with the access secret
generateRefreshTokenWithAccessSecret(userId) ==
    IF env.JWT_REFRESH_SECRET = Unset
    THEN Threw("JWT_REFRESH_SECRET environment variable is not set")
    ELSE [ok |-> TRUE, token |-> jwtSign(userId, env.JWT_SECRET, RefreshTTL)]

generateRefreshToken(userId) ==
    IF env.JWT_REFRESH_SECRET = Unset
    THEN Threw("JWT_REFRESH_SECRET environment variable is not set")
    ELSE [ok |-> TRUE, token |-> jwtSign(userId, env.JWT_REFRESH_SECRET, RefreshTTL)]

verifyAccessToken(token) ==
    IF env.JWT_SECRET = Unset
    THEN Threw("JWT_SECRET environment variable is not set")
    ELSE IF jwtVerify(token, env.JWT_SECRET)
         THEN [ok |-> TRUE, id |-> token.id]
         ELSE Threw("Invalid or expired token")

\* a verification that accepts only the refresh token issued last for its user
verifyRefreshTokenLatestOnly(token) ==
    IF env.JWT_REFRESH_SECRET = Unset
    THEN Threw("JWT_REFRESH_SECRET environment variable is not set")
    ELSE IF /\ jwtVerify(token, env.JWT_REFRESH_SECRET)
            /\ ~\E t \in refreshTokens : t.id = token.id /\ t.iat > token.iat
         THEN [ok |-> TRUE, id |-> token.id]
         ELSE Threw("Invalid or expired refresh token")

verifyRefreshToken(token) ==
    IF env.JWT_REFRESH_SECRET = Unset
    THEN Threw("JWT_REFRESH_SECRET environment variable is not set")
    ELSE IF jwtVerify(token, env.JWT_REFRESH_SECRET)
         THEN [ok |-> TRUE, id |-> token.id]
         ELSE Threw("Invalid or expired refresh token")

(***************************************************************************)
(* What a client can send as a token: a token it was handed, a string that *)
(* is no JWT, or a JWT it signed itself (or altered) for any user and any  *)
(* lifetime.                                                               *)
(***************************************************************************)
Garbage == [form |-> "garbage"]

ForgedTokens ==
    {[form |-> "jwt", id |-> u, iat |-> 0, exp |-> MaxTime + 1,
      iss |-> "task-manager-api", key |-> "attacker-key"] : u \in {1}}

ClientTokens == accessTokens \cup refreshTokens \cup ForgedTokens \cup {Garbage}

NoHeader == [scheme |-> "none"]
MalformedHeader == [scheme |-> "Basic"]
Bearer(token) == [scheme |-> "Bearer", token |-> token]

Headers == {NoHeader, MalformedHeader} \cup {Bearer(t) : t \in ClientTokens}

(***************************************************************************)
(* Identity middleware.                                                    *)
(***************************************************************************)
NoUser == 0

\* protect: the authenticated user id, or NoUser when the request is rejected
protect(header) ==
    IF header.scheme # "Bearer"
    THEN NoUser
    ELSE LET decoded == verifyAccessToken(header.token)
         IN  IF ~decoded.ok
             THEN NoUser
             ELSE IF \E u \in users : u.id = decoded.id
                  THEN decoded.id
                  ELSE NoUser

(***************************************************************************)
(* Requests and the routes.                                                *)
(***************************************************************************)
NoArgs == <<>>
NoReq == [op |-> "none", header |-> NoHeader, args |-> NoArgs]
NoResp == Res(0, "", NoData)

\* the routers with DELETE /api/tasks/:id left outside the middleware
ProtectedRoutesButDeleteTask ==
    {"getTasks", "getTask", "createTask", "updateTask", "getTaskStats",
     "getCategories", "getCategory", "createCategory", "updateCategory",
     "deleteCategory", "getMe"}

\* router.use(protect) of the task and category routers, and protect on /me
ProtectedRoutes ==
    {"getTasks", "getTask", "createTask", "updateTask", "deleteTask", "getTaskStats",
     "getCategories", "getCategory", "createCategory", "updateCategory",
     "deleteCategory", "getMe"}

\* req.user.id as the handler of route op sees it: set by protect only
Authenticated(op, header) == IF op \in ProtectedRoutes THEN protect(header) ELSE NoUser

\* the request never reaches the handler of route op
Rejected(op, header) == op \in ProtectedRoutes /\ protect(header) = NoUser

\* no request is being served
Idle == req.op = "none"

\* the handler of route op is run on the next request and answers res
Respond(op, header, args, res) ==
    /\ req' = [op |-> op, header |-> header, args |-> args]
    /\ resp' = res

\* res.json: the response leaves, the server awaits the next request
Reply ==
    /\ ~Idle
    /\ req' = NoReq
    /\ resp' = NoResp
    /\ UNCHANGED <<env, now, users, categories, tasks, nextUserId, nextCatId,
                   nextTaskId, accessTokens, refreshTokens, pending>>

(***************************************************************************)
(* Credential verifier and request validation of the auth routes.          *)
(***************************************************************************)
\* bcrypt.hash / bcrypt.compare: a one-way tag of the plaintext
bcryptHash(password) == [alg |-> "bcrypt", rounds |-> 12, of |-> password]
bcryptCompare(password, hash) == hash.of = password

Names == {"Al"}
ValidEmails == {"a@x.io", "b@x.io"}
Emails == ValidEmails \cup {"nobody"}
Passwords == {"secret1", "nope"}

IsEmail(e) == e \in ValidEmails

registerSchema(body) ==
    /\ Has(body, "name") /\ Len(body.name) >= 2 /\ Len(body.name) <= 50
    /\ Has(body, "email") /\ IsEmail(body.email)
    /\ Has(body, "password") /\ Len(body.password) >= 6

loginSchema(body) ==
    /\ Has(body, "email") /\ IsEmail(body.email)
    /\ Has(body, "password") /\ Len(body.password) >= 1

RegisterBodies == [name : Names, email : Emails, password : Passwords]
LoginBodies == [email : Emails, password : Passwords]
RefreshBodies == {NoArgs} \cup {[refreshToken |-> t] : t \in ClientTokens}

\* select: {id, name, email, createdAt}
PublicUser(u) ==
    [id |-> u.id, name |-> u.name, email |-> u.email, createdAt |-> u.createdAt]

UserByEmail(email) == {u \in users : u.email = email}
UserById(id) == {u \in users : u.id = id}

(***************************************************************************)
(* Auth handlers, register and login behind validate(schema).  Each yields *)
(* the response, the users table afterwards and the tokens handed to the   *)
(* client.                                                                 *)
(***************************************************************************)
Out(res, us, at, rt) == [res |-> res, users |-> us, access |-> at, refresh |-> rt]

TokenData(user, at, rt) ==
    [kind |-> "tokens", user |-> user, token |-> at, refreshToken |-> rt]

\* the data of a refresh: the pair alone
PairData(at, rt) == [kind |-> "tokens", token |-> at, refreshToken |-> rt]

register(body) ==
    IF ~registerSchema(body)
    THEN Out(validationError, users, {}, {})
    ELSE IF UserByEmail(body.email) # {}
    THEN Out(Res(400, "User already exists with this email", NoData), users, {}, {})
    ELSE LET user == [id |-> nextUserId, name |-> body.name, email |-> body.email,
                      password |-> bcryptHash(body.password), createdAt |-> now]
             token == generateAccessToken(user.id)
             refresh == generateRefreshToken(user.id)
         IN  IF ~token.ok \/ ~refresh.ok
             THEN Out(internalError, users \cup {user}, {}, {})
             ELSE Out(Res(201, "User registered successfully",
                          TokenData(PublicUser(user), token.token, refresh.token)),
                      users \cup {user}, {token.token}, {refresh.token})

login(body) ==
    IF ~loginSchema(body)
    THEN Out(validationError, users, {}, {})
    ELSE IF UserByEmail(body.email) = {}
    THEN Out(Res(401, "Invalid credentials", NoData), users, {}, {})
    ELSE LET user == CHOOSE u \in users : u.email = body.email
             token == generateAccessToken(user.id)
             refresh == generateRefreshToken(user.id)
         IN  IF ~bcryptCompare(body.password, user.password)
             THEN Out(Res(401, "Invalid credentials", NoData), users, {}, {})
             ELSE IF ~token.ok \/ ~refresh.ok
             THEN Out(internalError, users, {}, {})
             ELSE Out(Res(200, "Login successful",
                          TokenData(PublicUser(user), token.token, refresh.token)),
                      users, {token.token}, {refresh.token})

refreshToken(body) ==
    IF ~Truthy(body, "refreshToken")
    THEN Out(Res(401, "Refresh token is required", NoData), users, {}, {})
    ELSE LET decoded == verifyRefreshToken(body.refreshToken)
         IN  IF ~decoded.ok
             THEN Out(Res(401, "Invalid refresh token", NoData), users, {}, {})
             ELSE IF UserById(decoded.id) = {}
             THEN Out(Res(401, "Invalid refresh token", NoData), users, {}, {})
             ELSE LET token == generateAccessToken(decoded.id)
                      refresh == generateRefreshToken(decoded.id)
                  IN  IF ~token.ok \/ ~refresh.ok
                      THEN Out(Res(401, "Invalid refresh token", NoData), users, {}, {})
                      ELSE Out(Res(200, "", PairData(token.token, refresh.token)),
                               users, {token.token}, {refresh.token})

getMe(userId) ==
    IF userId = NoUser
    THEN internalError
    ELSE Res(200, "", [kind |-> "user",
                       user |-> {PublicUser(u) : u \in UserById(userId)}])

(***************************************************************************)
(* Actions of the auth routes, the clock and the users table.              *)
(***************************************************************************)
\* a request without an authorization header to route op of the auth router
Public(op, body, out) ==
    IF Rejected(op, NoHeader)
    THEN /\ Respond(op, NoHeader, NoArgs, unauthenticated)
         /\ UNCHANGED <<users, accessTokens, refreshTokens>>
    ELSE /\ Respond(op, NoHeader, body, out.res)
         /\ users' = out.users
         /\ accessTokens' = accessTokens \cup out.access
         /\ refreshTokens' = refreshTokens \cup out.refresh

Register ==
    /\ Idle
    /\ nextUserId <= MaxUsers
    /\ \E body \in RegisterBodies :
          /\ Public("register", body, register(body))
          /\ nextUserId' = IF register(body).users = users THEN nextUserId
                           ELSE nextUserId + 1
    /\ UNCHANGED <<env, now, categories, tasks, nextCatId, nextTaskId, pending>>

\* B is the set of bodies that the clients send
LoginWith(B) ==
    /\ Idle
    /\ \E body \in B : Public("login", body, login(body))
    /\ UNCHANGED <<env, now, categories, tasks, nextUserId, nextCatId, nextTaskId,
                   pending>>

Login == LoginWith(LoginBodies)

RefreshToken ==
    /\ Idle
    /\ \E body \in RefreshBodies : Public("refreshToken", body, refreshToken(body))
    /\ UNCHANGED <<env, now, categories, tasks, nextUserId, nextCatId, nextTaskId,
                   pending>>

GetMe ==
    /\ Idle
    /\ \E h \in Headers :
          IF Rejected("getMe", h)
          THEN Respond("getMe", h, NoArgs, unauthenticated)
          ELSE Respond("getMe", h, NoArgs, getMe(Authenticated("getMe", h)))
    /\ UNCHANGED <<env, now, storeVars, accessTokens, refreshTokens, pending>>

\* the clock advances by one second
Tick ==
    /\ Idle
    /\ now < MaxTime
    /\ now' = now + 1
    /\ UNCHANGED <<env, storeVars, accessTokens, refreshTokens, req, resp, pending>>

\* a row of "users" is removed in the database; its categories and tasks go
\* with it (onDelete: Cascade)
UserDeleted ==
    /\ Idle
    /\ \E u \in users :
          /\ users' = users \ {u}
          /\ categories' = {c \in categories : c.userId # u.id}
          /\ tasks' = {t \in tasks : t.userId # u.id}
    /\ UNCHANGED <<env, now, nextUserId, nextCatId, nextTaskId,
                   accessTokens, refreshTokens, req, resp, pending>>

(***************************************************************************)
(* The auth specification: an empty database, any configuration of the     *)
(* two secrets (either may be missing; set, they differ).                  *)
(***************************************************************************)
Configs ==
    [JWT_SECRET : {Unset, AccessSecret}, JWT_REFRESH_SECRET : {Unset, RefreshSecret}]

InitAuth ==
    /\ env \in Configs
    /\ now = 0
    /\ users = {} /\ categories = {} /\ tasks = {}
    /\ nextUserId = 1 /\ nextCatId = 1 /\ nextTaskId = 1
    /\ accessTokens = {} /\ refreshTokens = {}
    /\ req = NoReq /\ resp = NoResp
    /\ pending = EmptyBag

NextAuth ==
    \/ Register
    \/ Login
    \/ RefreshToken
    \/ GetMe
    \/ Reply
    \/ Tick
    \/ UserDeleted

SpecAuth == InitAuth /\ [][NextAuth]_vars

(***************************************************************************)
(* The token service and the auth routes.                                  *)
(***************************************************************************)
\* the request being answered was handed a pair of tokens
Issued == req.op \in {"register", "login", "refreshToken"} /\ resp.data.kind = "tokens"

\* the user the pair was issued for
Subject ==
    IF req.op = "refreshToken" THEN req.args.refreshToken.id ELSE resp.data.user.id

Accepted(id) == [ok |-> TRUE, id |-> id]

\* C4: the access token that generateAccessToken issues for user id u is,
\* right after it is issued, accepted by verifyAccessToken as a token of u,
\* and the refresh token of generateRefreshToken by verifyRefreshToken; so
\* are the two tokens of every pair that register, login or refresh hands out.
RoundTrip ==
    /\ \A u \in UserIds :
          /\ generateAccessToken(u).ok
                => verifyAccessToken(generateAccessToken(u).token) = Accepted(u)
          /\ generateRefreshToken(u).ok
                => verifyRefreshToken(generateRefreshToken(u).token) = Accepted(u)
    /\ Issued
          => /\ verifyAccessToken(resp.data.token) = Accepted(Subject)
             /\ verifyRefreshToken(resp.data.refreshToken) = Accepted(Subject)

\* a login at a later second than the registration was handed a pair
PairIssuedLater == Issued /\ req.op = "login" /\ now > 0

\* C5: at every time, no access token that was issued is accepted by
\* verifyRefreshToken and no refresh token that was issued is accepted by
\* verifyAccessToken; a refresh request that sends an access token is
\* answered 401.
SecretDomainsDisjoint ==
    /\ \A t \in accessTokens : ~verifyRefreshToken(t).ok
    /\ \A t \in refreshTokens : ~verifyAccessToken(t).ok
    /\ \A u \in UserIds :
          /\ generateAccessToken(u).ok
                => ~verifyRefreshToken(generateAccessToken(u).token).ok
          /\ generateRefreshToken(u).ok
                => ~verifyAccessToken(generateRefreshToken(u).token).ok
    /\ (/\ req.op = "refreshToken" /\ Has(req.args, "refreshToken")
        /\ req.args.refreshToken \in accessTokens)
       => resp.status = 401

\* an access token within its lifetime was sent as a refresh token and
\* answered 401
AccessTokenRefused ==
    /\ req.op = "refreshToken" /\ Has(req.args, "refreshToken")
    /\ req.args.refreshToken \in accessTokens
    /\ verifyAccessToken(req.args.refreshToken).ok
    /\ resp.status = 401

\* what the lifetime of the access tokens requires of a step
LifetimeStep ==
    \A t \in accessTokens' :
       /\ now' < t.iat + AccessTTL => verifyAccessToken(t)' = Accepted(t.id)
       /\ now' >= t.iat + AccessTTL => ~verifyAccessToken(t).ok'
       /\ (t \in accessTokens /\ ~verifyAccessToken(t).ok) => ~verifyAccessToken(t).ok'

\* C6: verifyAccessToken accepts an access token at every time before its
\* issue time plus the access lifetime and rejects it at every time from
\* then on; a token once rejected is never accepted again; nothing else
\* (another login, a refresh, the removal of its user) makes an issued
\* token invalid.
TokenLifetime == [][LifetimeStep]_vars

\* one access token has expired while a later one of the same user, who is
\* no longer in the database, is still accepted
ExpiredAndValid ==
    \E t1, t2 \in accessTokens :
       /\ t1.id = t2.id
       /\ ~verifyAccessToken(t1).ok
       /\ verifyAccessToken(t2).ok
       /\ UserById(t1.id) = {}

\* the users whose registration or login was answered with tokens
Credentialed(body) ==
    {u \in UserByEmail(body.email) :
        /\ bcryptCompare(body.password, u.password)
        /\ \E t \in accessTokens : t.id = u.id}

\* what C7 requires of a step
DistinctPairStep ==
    /\ (Idle /\ req'.op = "login" /\ Credentialed(req'.args) # {})
       => resp'.status = 200
    /\ (Idle /\ req'.op \in {"register", "login"} /\ resp'.data.kind = "tokens")
       => /\ resp'.data.token \notin accessTokens
          /\ resp'.data.refreshToken \notin refreshTokens

\* C7: a login with the credentials of a registration succeeds, and the
\* registration and every login are handed an access token and a refresh
\* token that no other call was handed, also within the same clock second.
DistinctPairEachCall == [][DistinctPairStep]_vars

\* the refresh request of the next step carries a refresh token that
\* verifyRefreshToken accepts and whose user exists
ValidRefresh ==
    /\ Has(req'.args, "refreshToken")
    /\ verifyRefreshToken(req'.args.refreshToken).ok
    /\ UserById(req'.args.refreshToken.id) # {}

\* what C8 requires of a step
RefreshStep ==
    (Idle /\ req'.op = "refreshToken")
       => IF ValidRefresh
          THEN /\ resp'.status = 200
               /\ resp'.data.token \notin accessTokens
               /\ resp'.data.refreshToken \notin refreshTokens
               /\ verifyAccessToken(resp'.data.token)
                     = Accepted(req'.args.refreshToken.id)
               /\ verifyRefreshToken(resp'.data.refreshToken)
                     = Accepted(req'.args.refreshToken.id)
          ELSE /\ resp'.status = 401
               /\ resp'.data = NoData
               /\ UNCHANGED <<accessTokens, refreshTokens>>

\* C8: a refresh with a refresh token that is valid and whose user exists is
\* answered with a new access token and a new refresh token of that user; a
\* refresh with a token whose user is gone, or with no token, a malformed,
\* a wrongly signed or an expired one, is answered 401 and issues no token.
RefreshRotates == [][RefreshStep]_vars

\* C18: when JWT_SECRET or JWT_REFRESH_SECRET is not configured the service
\* does not come up: no request is ever served and no row is written, so
\* that the missing secret is never met while a register, login, refresh or
\* protected request is being handled.
SecretsRequiredAtStartup ==
    (env.JWT_SECRET = Unset \/ env.JWT_REFRESH_SECRET = Unset)
       => /\ req = NoReq /\ resp = NoResp
          /\ users = {}

\* C19: in every reachable state, after any number of refreshes, each
\* refresh token issued so far whose user exists is accepted by the refresh
\* flow (answered 200) as long as the time is before its own expiry, and
\* each access token issued so far is accepted by verifyAccessToken as long
\* as the time is before its own expiry.
NothingRevoked ==
    /\ \A t \in refreshTokens :
          (now < t.iat + RefreshTTL /\ UserById(t.id) # {})
             => refreshToken([refreshToken |-> t]).res.status = 200
    /\ \A t \in accessTokens :
          now < t.iat + AccessTTL => verifyAccessToken(t) = Accepted(t.id)

\* a refresh token that was just used to mint another pair is still
\* accepted by the refresh flow
UsedTokenStillAccepted ==
    /\ req.op = "refreshToken" /\ resp.status = 200
    /\ resp.data.refreshToken # req.args.refreshToken
    /\ resp.data.refreshToken \in refreshTokens
    /\ refreshToken([refreshToken |-> req.args.refreshToken]).res.status = 200

(***************************************************************************)
(* The persistence collaborator: queries of the Prisma client.             *)
(***************************************************************************)
RECURSIVE Perms(_)
Perms(S) ==
    IF S = {} THEN {<<>>}
    ELSE UNION {{<<x>> \o p : p \in Perms(S \ {x})} : x \in S}

\* findMany with orderBy: every order of the rows the database may return,
\* rows with equal keys in any order
\* (before is the set of pairs <<a, b>> where a must come before b)
Ordered(S, before) ==
    {p \in Perms(S) : \A i, j \in 1..Len(p) : i < j => <<p[j], p[i]>> \notin before}

\* orderBy: {createdAt: 'desc'}
NewestFirst(S) == {<<a, b>> \in S \X S : a.createdAt > b.createdAt}

\* the lookup of a category by id alone
CategoryOfAnyOwner(C, id, userId) == {c \in C : c.id = id}

\* category.findFirst({where: {id, userId}})
CategoryOf(C, id, userId) == {c \in C : c.id = id /\ c.userId = userId}

\* the lookup of a task by id alone
TaskOfAnyOwner(T, id, userId) == {t \in T : t.id = id}

\* task.findFirst({where: {id, userId}})
TaskOf(T, id, userId) == {t \in T : t.id = id /\ t.userId = userId}

\* the lookup of a category by name alone
CategoryNamedAnyOwner(C, name, userId) == {c \in C : c.name = name}

\* category.findFirst({where: {name, userId}})
CategoryNamed(C, name, userId) == {c \in C : c.name = name /\ c.userId = userId}

\* a count of the tasks of the category that are still open
TaskCountOpen(T, categoryId) ==
    Cardinality({t \in T : t.categoryId = categoryId /\ t.status # "COMPLETED"})

\* task.count({where: {categoryId}})
TaskCount(T, categoryId) == Cardinality({t \in T : t.categoryId = categoryId})

\* include: {_count: {select: {tasks: true}}}
WithCount(c, T) ==
    [id |-> c.id, name |-> c.name, color |-> c.color, userId |-> c.userId,
     createdAt |-> c.createdAt, updatedAt |-> c.updatedAt,
     count |-> TaskCount(T, c.id)]

\* include: {tasks: {select: {id, title, status, dueDate, createdAt}}}
TaskSummary(t) ==
    [id |-> t.id, title |-> t.title, status |-> t.status, dueDate |-> t.dueDate,
     createdAt |-> t.createdAt]

\* include: {category: {select: {id, name, color}}}
WithCategory(t, C) ==
    [task |-> t,
     category |-> {[id |-> c.id, name |-> c.name, color |-> c.color] :
                      c \in {x \in C : x.id = t.categoryId}}]

(***************************************************************************)
(* Request validation of the category and task routes.                     *)
(***************************************************************************)
DefaultColor == "#3B82F6"
ValidColors == {DefaultColor, "#FF0000"}
IsColor(c) == c \in ValidColors

Only(body, fields) == DOMAIN body \subseteq fields

createCategorySchema(body) ==
    /\ Only(body, {"name", "color"})
    /\ Has(body, "name") /\ Len(body.name) >= 1 /\ Len(body.name) <= 50
    /\ Has(body, "color") => IsColor(body.color)

updateCategorySchema(body) ==
    /\ Only(body, {"name", "color"})
    /\ Has(body, "name") => (Len(body.name) >= 1 /\ Len(body.name) <= 50)
    /\ Has(body, "color") => IsColor(body.color)

TaskFields == {"title", "description", "dueDate", "status", "categoryId"}

OptionalTaskFields(body) ==
    /\ Only(body, TaskFields)
    /\ Has(body, "description") =>
          (Len(body.description) >= 1 /\ Len(body.description) <= 1000)
    /\ Has(body, "dueDate") => body.dueDate >= 0
    /\ Has(body, "status") => body.status \in Statuses
    /\ Has(body, "categoryId") => body.categoryId # NullId

createTaskSchema(body) ==
    /\ OptionalTaskFields(body)
    /\ Has(body, "title") /\ Len(body.title) >= 1 /\ Len(body.title) <= 200

updateTaskSchema(body) ==
    /\ OptionalTaskFields(body)
    /\ Has(body, "title") => (Len(body.title) >= 1 /\ Len(body.title) <= 200)

(***************************************************************************)
(* Category handlers.  Each yields the set of its possible outcomes on the *)
(* tables T (tasks) and C (categories): the response and the tables        *)
(* afterwards.                                                             *)
(***************************************************************************)
Done(res, T, C) == [res |-> res, tasks |-> T, categories |-> C]

categoryNotFound == Res(404, "Category not found", NoData)
taskNotFound == Res(404, "Task not found", NoData)
nameTaken == Res(400, "Category with this name already exists", NoData)
\* the answer to a category reference that cannot be resolved, as a thrown error
badCategoryThrown == Res(500, "Category not found or does not belong to user", NoData)
badCategory == Res(400, "Category not found or does not belong to user", NoData)

getCategories(userId, T, C) ==
    IF userId = NoUser THEN {Done(internalError, T, C)}
    ELSE LET found == {WithCount(c, T) : c \in {x \in C : x.userId = userId}}
         IN  {Done(Res(200, "", [kind |-> "categories", categories |-> list]), T, C) :
                 list \in Ordered(found, NewestFirst(found))}

getCategory(userId, id, T, C) ==
    IF userId = NoUser THEN {Done(internalError, T, C)}
    ELSE IF CategoryOf(C, id, userId) = {} THEN {Done(categoryNotFound, T, C)}
    ELSE LET c == CHOOSE x \in CategoryOf(C, id, userId) : TRUE
             found == {t \in T : t.categoryId = c.id}
         IN  {Done(Res(200, "", [kind |-> "category", category |-> WithCount(c, T),
                                 tasks |-> [i \in DOMAIN list |-> TaskSummary(list[i])]]),
                   T, C) :
                 list \in Ordered(found, NewestFirst(found))}

createCategory(userId, body, T, C) ==
    IF userId = NoUser THEN {Done(internalError, T, C)}
    ELSE IF CategoryNamed(C, body.name, userId) # {}
    THEN {Done(nameTaken, T, C)}
    ELSE LET c == [id |-> nextCatId, name |-> body.name,
                   color |-> IF Truthy(body, "color") THEN body.color ELSE DefaultColor,
                   userId |-> userId, createdAt |-> now, updatedAt |-> now]
         IN  {Done(Res(201, "Category created successfully",
                       [kind |-> "category", category |-> WithCount(c, T)]),
                   T, C \cup {c})}

updateCategory(userId, id, body, T, C) ==
    IF userId = NoUser THEN {Done(internalError, T, C)}
    ELSE IF CategoryOf(C, id, userId) = {} THEN {Done(categoryNotFound, T, C)}
    ELSE LET existingCategory == CHOOSE x \in CategoryOf(C, id, userId) : TRUE
             nameConflict ==
                 /\ Truthy(body, "name")
                 /\ body.name # existingCategory.name
                 /\ \E c \in CategoryNamed(C, body.name, userId) : c.id # id
             c == [existingCategory EXCEPT
                      !.name = IF Truthy(body, "name") THEN body.name ELSE @,
                      !.color = IF Truthy(body, "color") THEN body.color ELSE @,
                      !.updatedAt = now]
         IN  IF nameConflict THEN {Done(nameTaken, T, C)}
             ELSE {Done(Res(200, "Category updated successfully",
                            [kind |-> "category", category |-> WithCount(c, T)]),
                        T, {IF x.id = id THEN c ELSE x : x \in C})}

deleteCategory(userId, id, T, C) ==
    IF userId = NoUser THEN {Done(internalError, T, C)}
    ELSE IF CategoryOf(C, id, userId) = {} THEN {Done(categoryNotFound, T, C)}
    ELSE IF TaskCount(T, id) > 0
    THEN {Done(Res(400, "Cannot delete category. It has associated tasks.",
                   [kind |-> "count", count |-> TaskCount(T, id)]), T, C)}
    ELSE {Done(Res(200, "Category deleted successfully", NoData),
               \* onDelete: SetNull on the tasks of the category
               {IF t.categoryId = id THEN [t EXCEPT !.categoryId = NullId] ELSE t :
                   t \in T},
               {c \in C : c.id # id})}

(***************************************************************************)
(* Task handlers.                                                          *)
(***************************************************************************)
getTask(userId, id, T, C) ==
    IF userId = NoUser THEN {Done(internalError, T, C)}
    ELSE IF TaskOf(T, id, userId) = {} THEN {Done(taskNotFound, T, C)}
    ELSE {Done(Res(200, "", [kind |-> "task", task |-> WithCategory(t, C)]), T, C) :
             t \in TaskOf(T, id, userId)}

createTask(userId, body, T, C) ==
    IF userId = NoUser THEN {Done(internalError, T, C)}
    ELSE IF Truthy(body, "categoryId") /\ CategoryOf(C, body.categoryId, userId) = {}
    THEN {Done(badCategory, T, C)}
    ELSE LET t == [id |-> nextTaskId,
                   title |-> body.title,
                   description |-> IF Has(body, "description") THEN body.description
                                   ELSE NullText,
                   dueDate |-> IF Truthy(body, "dueDate") THEN body.dueDate
                               ELSE NullDate,
                   status |-> IF Truthy(body, "status") THEN body.status ELSE "PENDING",
                   userId |-> userId,
                   categoryId |-> IF Has(body, "categoryId") THEN body.categoryId
                                  ELSE NullId,
                   createdAt |-> now, updatedAt |-> now]
         IN  {Done(Res(201, "Task created successfully",
                       [kind |-> "task", task |-> WithCategory(t, C)]),
                   T \cup {t}, C)}

updateTask(userId, id, body, T, C) ==
    IF userId = NoUser THEN {Done(internalError, T, C)}
    ELSE IF TaskOf(T, id, userId) = {} THEN {Done(taskNotFound, T, C)}
    ELSE IF Truthy(body, "categoryId") /\ CategoryOf(C, body.categoryId, userId) = {}
    THEN {Done(badCategory, T, C)}
    ELSE LET existingTask == CHOOSE x \in TaskOf(T, id, userId) : TRUE
             t == [existingTask EXCEPT
                      !.title = IF Truthy(body, "title") THEN body.title ELSE @,
                      !.description = IF Has(body, "description") THEN body.description
                                      ELSE @,
                      !.dueDate = IF Has(body, "dueDate") THEN body.dueDate ELSE @,
                      !.status = IF Truthy(body, "status") THEN body.status ELSE @,
                      !.categoryId = IF Has(body, "categoryId") THEN body.categoryId
                                     ELSE @,
                      !.updatedAt = now]
         IN  {Done(Res(200, "Task updated successfully",
                       [kind |-> "task", task |-> WithCategory(t, C)]),
                   {IF x.id = id THEN t ELSE x : x \in T}, C)}

deleteTask(userId, id, T, C) ==
    IF userId = NoUser THEN {Done(internalError, T, C)}
    ELSE IF TaskOf(T, id, userId) = {} THEN {Done(taskNotFound, T, C)}
    ELSE {Done(Res(200, "Task deleted successfully", NoData),
               {t \in T : t.id # id}, C)}

(***************************************************************************)
(* Strings of the query engine, as sequences of characters.                *)
(***************************************************************************)
Digits == <<"0", "1", "2", "3", "4", "5", "6", "7", "8", "9">>
UpperCase == <<"A", "B", "C", "D", "E", "F", "G", "H", "I", "J", "K", "L", "M",
               "N", "O", "P", "Q", "R", "S", "T", "U", "V", "W", "X", "Y", "Z">>
LowerCase == <<"a", "b", "c", "d", "e", "f", "g", "h", "i", "j", "k", "l", "m",
               "n", "o", "p", "q", "r", "s", "t", "u", "v", "w", "x", "y", "z">>

IndexIn(seq, ch) == CHOOSE i \in 1..Len(seq) : seq[i] = ch
IsIn(seq, ch) == \E i \in 1..Len(seq) : seq[i] = ch

ToLower(ch) == IF IsIn(UpperCase, ch) THEN LowerCase[IndexIn(UpperCase, ch)] ELSE ch

\* {contains: sub, mode: 'insensitive'}; a null column matches nothing
ContainsInsensitive(str, sub) ==
    /\ str # NullText
    /\ \E i \in 0..(Len(str) - Len(sub)) :
          \A j \in 1..Len(sub) : ToLower(str[i + j]) = ToLower(sub[j])

\* the order of two strings in the collation of the database: by character,
\* letters after digits, a letter next to its other case
Rank(ch) ==
    IF IsIn(Digits, ch) THEN IndexIn(Digits, ch)
    ELSE IF IsIn(LowerCase, ch) THEN 10 + 2 * IndexIn(LowerCase, ch)
    ELSE IF IsIn(UpperCase, ch) THEN 11 + 2 * IndexIn(UpperCase, ch)
    ELSE 0

StrLess(a, b) ==
    \E i \in 1..Len(b) :
        /\ \A j \in 1..(i - 1) : j <= Len(a) /\ Rank(a[j]) = Rank(b[j])
        /\ (i > Len(a) \/ Rank(a[i]) < Rank(b[i]))

NaN == [nan |-> TRUE]
Num(n) == [nan |-> FALSE, n |-> n]

RECURSIVE DigitsValue(_, _, _)
\* the value of the leading digits of str from position i on, acc so far
DigitsValue(str, i, acc) ==
    IF i > Len(str) \/ ~IsIn(Digits, str[i]) THEN acc
    ELSE DigitsValue(str, i + 1, 10 * acc + (IndexIn(Digits, str[i]) - 1))

\* parseInt(str): an optional sign, then the leading digits; NaN without any
parseInt(str) ==
    LET neg == Len(str) >= 1 /\ str[1] = "-"
        first == IF neg THEN 2 ELSE 1
    IN  IF first > Len(str) \/ ~IsIn(Digits, str[first]) THEN NaN
        ELSE Num((IF neg THEN -1 ELSE 1) * DigitsValue(str, first, 0))

(***************************************************************************)
(* Query engine: where clauses and orderings of task.findMany/task.count.  *)
(* A filter on a column is {eq: v} (a plain value) or {not: v}.            *)
(***************************************************************************)
Eq(v) == [eq |-> v]
Not(v) == [not |-> v]

\* a filter the schema accepts for the status column
StatusFilterOk(f) == IF Has(f, "eq") THEN f.eq \in Statuses ELSE f.not \in Statuses

\* a null column satisfies neither {eq: v} nor {not: v}
Satisfies(v, null, f) ==
    /\ v # null
    /\ IF Has(f, "eq") THEN v = f.eq ELSE v # f.not

\* the rows of T a where clause selects: every key of the clause must hold
Matches(t, where) ==
    /\ Has(where, "userId") => t.userId = where.userId
    /\ Has(where, "status") => Satisfies(t.status, "", where.status)
    /\ Has(where, "categoryId") => Satisfies(t.categoryId, NullId, where.categoryId)
    /\ Has(where, "OR") =>
          \/ ContainsInsensitive(t.title, where.OR)
          \/ ContainsInsensitive(t.description, where.OR)
    /\ Has(where, "dueBefore") => (t.dueDate # NullDate /\ t.dueDate < where.dueBefore)
    /\ Has(where, "statusNotIn") => t.status \notin where.statusNotIn

FindMany(T, where) == {t \in T : Matches(t, where)}

\* a record with the fields of both; those of b win
Merge(a, b) ==
    [f \in DOMAIN a \cup DOMAIN b |-> IF f \in DOMAIN b THEN b[f] ELSE a[f]]

\* a where clause of the optional filters alone
TasksWhereUnscoped(userId, query) ==
    LET status == IF Truthy(query, "status") THEN [status |-> query.status] ELSE <<>>
        category == IF Truthy(query, "categoryId")
                    THEN [categoryId |-> query.categoryId] ELSE <<>>
        search == IF Truthy(query, "search") /\ query.search # <<>>
                  THEN [OR |-> query.search] ELSE <<>>
    IN  Merge(Merge(status, category), search)

\* getTasks: "const where: any = { userId }" and the optional filters
TasksWhere(userId, query) ==
    LET status == IF Truthy(query, "status") THEN [status |-> query.status] ELSE <<>>
        category == IF Truthy(query, "categoryId")
                    THEN [categoryId |-> query.categoryId] ELSE <<>>
        search == IF Truthy(query, "search") /\ query.search # <<>>
                  THEN [OR |-> query.search] ELSE <<>>
    IN  Merge(Merge(Merge([userId |-> userId], status), category), search)

\* the where clauses with an overdue count that does not look at the status
StatsWhereAnyStatus(userId) ==
    [totalTasks |-> [userId |-> userId],
     pendingTasks |-> [userId |-> userId, status |-> Eq("PENDING")],
     inProgressTasks |-> [userId |-> userId, status |-> Eq("IN_PROGRESS")],
     completedTasks |-> [userId |-> userId, status |-> Eq("COMPLETED")],
     overdueTasks |-> [userId |-> userId, dueBefore |-> now]]

\* getTaskStats: the where clauses of its five counts
StatsWhere(userId) ==
    [totalTasks |-> [userId |-> userId],
     pendingTasks |-> [userId |-> userId, status |-> Eq("PENDING")],
     inProgressTasks |-> [userId |-> userId, status |-> Eq("IN_PROGRESS")],
     completedTasks |-> [userId |-> userId, status |-> Eq("COMPLETED")],
     overdueTasks |-> [userId |-> userId, dueBefore |-> now,
                       statusNotIn |-> {"COMPLETED", "CANCELLED"}]]

StatusRank(st) ==
    CASE st = "PENDING" -> 1 [] st = "IN_PROGRESS" -> 2
      [] st = "COMPLETED" -> 3 [] st = "CANCELLED" -> 4

SortFields ==
    {"id", "title", "description", "dueDate", "status", "userId", "categoryId",
     "createdAt", "updatedAt"}

\* a sorts strictly before b by column field, ascending; nulls sort last
ColumnLess(field, a, b) ==
    CASE field \in {"id", "userId", "createdAt", "updatedAt"} -> a[field] < b[field]
      [] field = "status" -> StatusRank(a.status) < StatusRank(b.status)
      [] field = "title" -> StrLess(a.title, b.title)
      [] field = "description" ->
            /\ a.description # NullText
            /\ (b.description = NullText \/ StrLess(a.description, b.description))
      [] field = "dueDate" ->
            /\ a.dueDate # NullDate
            /\ (b.dueDate = NullDate \/ a.dueDate < b.dueDate)
      [] field = "categoryId" ->
            /\ a.categoryId # NullId
            /\ (b.categoryId = NullId \/ a.categoryId < b.categoryId)

\* findMany({where, orderBy: {[field]: dir}}): the possible result lists
FindOrdered(T, where, field, dir) ==
    LET found == FindMany(T, where)
    IN  Ordered(found, {<<a, b>> \in found \X found :
                           IF dir = "asc" THEN ColumnLess(field, a, b)
                           ELSE ColumnLess(field, b, a)})

\* a window that always starts at the head of the result list
WindowOfFirstPage(list, skip, take) ==
    SubSeq(list, 1, IF take < Len(list) THEN take ELSE Len(list))

\* skip and take of a result list (a negative take counts from the end)
Window(list, skip, take) ==
    IF take >= 0
    THEN SubSeq(list, skip + 1, IF skip + take < Len(list) THEN skip + take
                                ELSE Len(list))
    ELSE SubSeq(list, IF Len(list) - skip + take + 1 > 1
                      THEN Len(list) - skip + take + 1 ELSE 1, Len(list) - skip)

\* Math.ceil(total / limit); Infinity and NaN (limit 0) leave JSON as null
Pages(total, limit) ==
    IF limit = 0 THEN NaN
    ELSE IF limit > 0 THEN Num((total + limit - 1) \div limit)
    ELSE Num(-(total \div (-limit)))

(***************************************************************************)
(* Query handlers.                                                         *)
(***************************************************************************)
getTasks(userId, query, T, C) ==
    IF userId = NoUser THEN {Done(internalError, T, C)}
    ELSE
    LET pageNum == parseInt(IF Has(query, "page") THEN query.page ELSE <<"1">>)
        limitNum == parseInt(IF Has(query, "limit") THEN query.limit ELSE <<"1", "0">>)
        sortBy == IF Has(query, "sortBy") THEN query.sortBy ELSE "createdAt"
        sortOrder == IF Has(query, "sortOrder") THEN query.sortOrder ELSE "desc"
        where == TasksWhere(userId, query)
        \* the Prisma client throws on arguments the schema does not accept
        accepted ==
            /\ ~pageNum.nan /\ ~limitNum.nan
            /\ (pageNum.n - 1) * limitNum.n >= 0
            /\ Has(where, "status") => StatusFilterOk(where.status)
            /\ sortBy \in SortFields
            /\ sortOrder \in {"asc", "desc"}
    IN  IF ~accepted THEN {Done(internalError, T, C)}
        ELSE {Done(Res(200, "",
                       [kind |-> "tasks",
                        tasks |-> [i \in DOMAIN Window(list, (pageNum.n - 1) * limitNum.n,
                                                       limitNum.n) |->
                                     WithCategory(Window(list,
                                                         (pageNum.n - 1) * limitNum.n,
                                                         limitNum.n)[i], C)],
                        pagination |-> [page |-> pageNum.n, limit |-> limitNum.n,
                                        total |-> Cardinality(FindMany(T, where)),
                                        pages |-> Pages(Cardinality(FindMany(T, where)),
                                                        limitNum.n)],
                        \* the rows task.count counted
                        counted |-> FindMany(T, where)]), T, C) :
                 list \in FindOrdered(T, where, sortBy, sortOrder)}

getTaskStats(userId, T, C) ==
    IF userId = NoUser THEN {Done(internalError, T, C)}
    ELSE LET where == StatsWhere(userId)
             n(k) == Cardinality(FindMany(T, where[k]))
         IN  {Done(Res(200, "",
                       [kind |-> "stats",
                        totalTasks |-> n("totalTasks"),
                        pendingTasks |-> n("pendingTasks"),
                        inProgressTasks |-> n("inProgressTasks"),
                        completedTasks |-> n("completedTasks"),
                        overdueTasks |-> n("overdueTasks"),
                        \* the rows each task.count counted
                        counted |-> [k \in DOMAIN where |-> FindMany(T, where[k])]]),
                   T, C)}

(***************************************************************************)
(* Requests the clients send to the category and task routes.              *)
(***************************************************************************)
Milk == <<"M", "i">>
Report == <<"r", "e">>
Note == <<"m", "I", "x">>

CreateCategoryBodies ==
    {[name |-> "Work"], [name |-> "Home", color |-> DefaultColor], [name |-> ""]}

UpdateCategoryBodies ==
    {[name |-> "Work"], [name |-> "Home", color |-> DefaultColor], [color |-> "red"]}

CreateTaskBodies ==
    {[title |-> Milk], [title |-> Milk, status |-> "DONE"],
     [title |-> Report, description |-> Note, dueDate |-> 0, status |-> "IN_PROGRESS"]}
    \cup {[title |-> Milk, categoryId |-> c] : c \in CatIds}

UpdateTaskBodies ==
    {[status |-> "COMPLETED"], [status |-> "DONE"]}
    \cup {[categoryId |-> c] : c \in CatIds}

\* the query strings of GET /api/tasks: each parameter absent or one of vs
Param(field, vs) == {<<>>} \cup {[x \in {field} |-> v] : v \in vs}

TaskQueries ==
    {Merge(Merge(Merge(Merge(Merge(Merge(p, l), st), c), se), sb), so) :
        p \in Param("page", {<<"2">>}),
        l \in Param("limit", {<<"1">>}),
        st \in Param("status", {Eq("PENDING"), Not("PENDING")}),
        c \in Param("categoryId", {Eq(1)}),
        se \in Param("search", {<<"m", "i">>}),
        sb \in Param("sortBy", {"title", "sortBy"}),
        so \in Param("sortOrder", {"asc"})}

\* the headers of clients that are signed in
SignedIn == {Bearer(t) : t \in accessTokens}

(***************************************************************************)
(* Actions of the category and task routes: protect, then validate (on the *)
(* routes with a body), then the handler.  H is the set of authorization   *)
(* headers and B the set of bodies that the clients send.                  *)
(***************************************************************************)
\* validate(schema): the request goes on to the handler, or is answered 400
validate(valid, T, C, outcomes) ==
    IF valid THEN outcomes ELSE {Done(validationError, T, C)}

Serve(op, header, args, outcomes) ==
    /\ IF Rejected(op, header)
       THEN /\ Respond(op, header, NoArgs, unauthenticated)
            /\ UNCHANGED <<categories, tasks, nextCatId, nextTaskId>>
       ELSE \E out \in outcomes :
               /\ Respond(op, header, args, out.res)
               /\ categories' = out.categories
               /\ tasks' = out.tasks
               /\ nextCatId' = IF \E c \in out.categories : c.id = nextCatId
                               THEN nextCatId + 1 ELSE nextCatId
               /\ nextTaskId' = IF \E t \in out.tasks : t.id = nextTaskId
                                THEN nextTaskId + 1 ELSE nextTaskId
    /\ UNCHANGED <<env, now, users, nextUserId, accessTokens, refreshTokens, pending>>

GetCategories(H) ==
    /\ Idle
    /\ \E h \in H :
           Serve("getCategories", h, NoArgs,
                 getCategories(Authenticated("getCategories", h), tasks, categories))

GetCategory(H) ==
    /\ Idle
    /\ \E h \in H, id \in CatIds :
           Serve("getCategory", h, [id |-> id],
                 getCategory(Authenticated("getCategory", h), id, tasks, categories))

CreateCategory(H, B) ==
    /\ Idle
    /\ nextCatId <= MaxCats
    /\ \E h \in H, body \in B :
          Serve("createCategory", h, [body |-> body],
                validate(createCategorySchema(body), tasks, categories,
                         createCategory(Authenticated("createCategory", h), body,
                                        tasks, categories)))

UpdateCategory(H, B) ==
    /\ Idle
    /\ \E h \in H, id \in CatIds, body \in B :
           Serve("updateCategory", h, [id |-> id, body |-> body],
                 validate(updateCategorySchema(body), tasks, categories,
                          updateCategory(Authenticated("updateCategory", h), id, body,
                                         tasks, categories)))

DeleteCategory(H) ==
    /\ Idle
    /\ \E h \in H, id \in CatIds :
           Serve("deleteCategory", h, [id |-> id],
                 deleteCategory(Authenticated("deleteCategory", h), id, tasks, categories))

GetTask(H) ==
    /\ Idle
    /\ \E h \in H, id \in TaskIds :
           Serve("getTask", h, [id |-> id],
                 getTask(Authenticated("getTask", h), id, tasks, categories))

CreateTask(H, B) ==
    /\ Idle
    /\ nextTaskId <= MaxTasks
    /\ \E h \in H, body \in B :
          Serve("createTask", h, [body |-> body],
                validate(createTaskSchema(body), tasks, categories,
                         createTask(Authenticated("createTask", h), body,
                                    tasks, categories)))

UpdateTask(H, B) ==
    /\ Idle
    /\ \E h \in H, id \in TaskIds, body \in B :
           Serve("updateTask", h, [id |-> id, body |-> body],
                 validate(updateTaskSchema(body), tasks, categories,
                          updateTask(Authenticated("updateTask", h), id, body,
                                     tasks, categories)))

DeleteTask(H) ==
    /\ Idle
    /\ \E h \in H, id \in TaskIds :
           Serve("deleteTask", h, [id |-> id],
                 deleteTask(Authenticated("deleteTask", h), id, tasks, categories))

GetTasks(H, Q) ==
    /\ Idle
    /\ \E h \in H, query \in Q :
           Serve("getTasks", h, [query |-> query],
                 getTasks(Authenticated("getTasks", h), query, tasks, categories))

GetTaskStats(H) ==
    /\ Idle
    /\ \E h \in H :
           Serve("getTaskStats", h, NoArgs,
                 getTaskStats(Authenticated("getTaskStats", h), tasks, categories))

(***************************************************************************)
(* The resource specification: both secrets configured, two registered     *)
(* users who have just logged in, no categories and no tasks yet; the      *)
(* requests of signed-in clients within the lifetime of their tokens.      *)
(***************************************************************************)
Alice == 1
Bob == 2

Init ==
    /\ env = [JWT_SECRET |-> AccessSecret, JWT_REFRESH_SECRET |-> RefreshSecret]
    /\ now = 0
    /\ users = {[id |-> Alice, name |-> "Al", email |-> "a@x.io",
                 password |-> bcryptHash("secret1"), createdAt |-> 0],
                [id |-> Bob, name |-> "Al", email |-> "b@x.io",
                 password |-> bcryptHash("secret1"), createdAt |-> 0]}
    /\ categories = {} /\ tasks = {}
    /\ nextUserId = 3 /\ nextCatId = 1 /\ nextTaskId = 1
    /\ accessTokens = {generateAccessToken(u).token : u \in {Alice, Bob}}
    /\ refreshTokens = {generateRefreshToken(u).token : u \in {Alice, Bob}}
    /\ req = NoReq /\ resp = NoResp
    /\ pending = EmptyBag

Next ==
    \/ GetCategories(SignedIn)
    \/ GetCategory(SignedIn)
    \/ CreateCategory(SignedIn, CreateCategoryBodies)
    \/ UpdateCategory(SignedIn, UpdateCategoryBodies)
    \/ DeleteCategory(SignedIn)
    \/ GetTask(SignedIn)
    \/ CreateTask(SignedIn, CreateTaskBodies)
    \/ UpdateTask(SignedIn, UpdateTaskBodies)
    \/ DeleteTask(SignedIn)
    \/ Reply

Spec == Init /\ [][Next]_vars

(***************************************************************************)
(* Tenant isolation.                                                       *)
(***************************************************************************)
TaskByIdOps == {"getTask", "updateTask", "deleteTask"}
CategoryByIdOps == {"getCategory", "updateCategory", "deleteCategory"}

\* the user the request being answered is authenticated as
Caller == protect(req.header)

\* the next step serves a request that reaches the handler of one of ops
Reaches(ops) ==
    /\ Idle
    /\ req'.op \in ops
    /\ Has(req'.args, "id")

\* the body of the request served by the next step passes validate
BodyAccepted ==
    /\ req'.op = "updateTask" => updateTaskSchema(req'.args.body)
    /\ req'.op = "updateCategory" => updateCategorySchema(req'.args.body)

\* what tenant isolation requires of a step
IsolatedStep ==
    /\ (/\ Reaches(TaskByIdOps)
        /\ \E t \in tasks : t.id = req'.args.id /\ t.userId # protect(req'.header))
       => /\ UNCHANGED <<tasks, categories>>
          /\ (BodyAccepted => resp' = taskNotFound)
    /\ (/\ Reaches(CategoryByIdOps)
        /\ \E c \in categories :
               c.id = req'.args.id /\ c.userId # protect(req'.header))
       => /\ UNCHANGED <<tasks, categories>>
          /\ (BodyAccepted => resp' = categoryNotFound)
    /\ (Reaches({"getTask"}) /\ resp'.status = 200)
       => resp'.data.task.task.userId = protect(req'.header)
    /\ (Reaches({"getCategory"}) /\ resp'.status = 200)
       => resp'.data.category.userId = protect(req'.header)

\* C1: a task or category of user A is never returned by getTask or
\* getCategory authenticated as another user B, and getTask, updateTask,
\* deleteTask, getCategory, updateCategory and deleteCategory on it as B are
\* each answered 404 and leave the tables as they were.
TenantIsolation == [][IsolatedStep]_vars

\* Bob's update of a task of Alice was answered 404
ForeignUpdateAnswered404 ==
    /\ req.op = "updateTask" /\ Caller = Bob
    /\ resp = taskNotFound
    /\ \E t \in tasks : t.id = req.args.id /\ t.userId = Alice

\* the rows of table R that userId owns
Own(R, userId) == {r \in R : r.userId = userId}

\* the responses among a set of outcomes
Responses(outcomes) == {out.res : out \in outcomes}

\* the outcomes of the by-id request r of user B on the tables T and C
Handle(r, B, T, C) ==
    CASE r.op = "getTask" -> getTask(B, r.args.id, T, C)
      [] r.op = "updateTask" ->
            validate(updateTaskSchema(r.args.body), T, C,
                     updateTask(B, r.args.id, r.args.body, T, C))
      [] r.op = "deleteTask" -> deleteTask(B, r.args.id, T, C)
      [] r.op = "getCategory" -> getCategory(B, r.args.id, T, C)
      [] r.op = "updateCategory" ->
            validate(updateCategorySchema(r.args.body), T, C,
                     updateCategory(B, r.args.id, r.args.body, T, C))
      [] r.op = "deleteCategory" -> deleteCategory(B, r.args.id, T, C)

\* the id of request r names a row of another user than B
NamesForeignRow(r, B) ==
    IF r.op \in TaskByIdOps
    THEN \E t \in tasks : t.id = r.args.id /\ t.userId # B
    ELSE \E c \in categories : c.id = r.args.id /\ c.userId # B

\* what indistinguishability requires of a step
IndistinguishableStep ==
    Reaches(TaskByIdOps \cup CategoryByIdOps)
       => LET B == protect(req'.header)
              T == Own(tasks, B)
              C == Own(categories, B)
          IN  /\ Responses(Handle(req', B, tasks, categories))
                    = Responses(Handle(req', B, T, C))
              /\ resp' \in Responses(Handle(req', B, T, C))
              /\ (NamesForeignRow(req', B) /\ BodyAccepted)
                    => /\ resp'.status = 404
                       /\ resp' \in Responses(Handle(req', B, {}, {}))

\* C2: the response to a by-id fetch, update or delete of a task or a
\* category authenticated as B is the same on the tables as they are and on
\* the tables without the rows of the other users (where the id of a row of
\* another user names no row at all); when the id names a row of another
\* user it is the 404, with the same message, that an id naming nothing gets.
ForeignIndistinguishable == [][IndistinguishableStep]_vars

\* Alice's fetch of a category of Bob, holding a task of Bob, was answered
\* as the fetch of a category that does not exist
ForeignFetchAnswered404 ==
    /\ req.op = "getCategory" /\ Caller = Alice
    /\ resp = categoryNotFound
    /\ \E c \in categories : c.id = req.args.id /\ c.userId = Bob
    /\ \E t \in tasks : t.categoryId = req.args.id

(***************************************************************************)
(* Category names.                                                         *)
(***************************************************************************)
\* the categories of userId named name, other than the category id
Namesakes(userId, name, id) ==
    {c \in categories : c.userId = userId /\ c.name = name /\ c.id # id}

\* what per-owner uniqueness of names requires of a step
NameCheckedStep ==
    LET u == protect(req'.header)
        id == req'.args.id
        body == req'.args.body
    IN  /\ (/\ Idle /\ req'.op = "createCategory" /\ Has(req'.args, "body")
            /\ createCategorySchema(body))
           => IF Namesakes(u, body.name, NullId) # {}
              THEN resp' = nameTaken /\ UNCHANGED <<categories, tasks>>
              ELSE /\ resp'.status = 201
                   /\ \E c \in categories' :
                         /\ c.name = body.name /\ c.userId = u
                         /\ categories' = categories \cup {c}
        /\ (/\ Idle /\ req'.op = "updateCategory" /\ Has(req'.args, "body")
            /\ updateCategorySchema(body) /\ Has(body, "name")
            /\ \E c \in categories : c.id = id /\ c.userId = u)
           => IF Namesakes(u, body.name, id) # {}
              THEN resp' = nameTaken /\ UNCHANGED <<categories, tasks>>
              ELSE /\ resp'.status = 200
                   /\ \E c \in categories' :
                         c.id = id /\ c.name = body.name /\ c.userId = u

\* C10: createCategory with a name its owner already uses is answered by the
\* 400 conflict and creates nothing; updateCategory to a name of another
\* category of the same owner is answered by the conflict and changes
\* nothing, while its own current name is accepted; a name that only other
\* owners use is accepted.
NameUniquePerOwner == [][NameCheckedStep]_vars

\* Bob's category "Work" was created while Alice owned a category "Work"
SameNameTwoOwners ==
    /\ req.op = "createCategory" /\ Caller = Bob
    /\ resp.status = 201 /\ resp.data.category.name = "Work"
    /\ \E c \in categories : c.userId = Alice /\ c.name = "Work" /\ c.id < resp.data.category.id

(***************************************************************************)
(* The guard on deleting a category, and category references of tasks.     *)
(***************************************************************************)
\* what the delete guard requires of a step
DeleteGuardedStep ==
    LET u == protect(req'.header)
        id == req'.args.id
    IN  (/\ Idle /\ req'.op = "deleteCategory" /\ Has(req'.args, "id")
         /\ \E c \in categories : c.id = id /\ c.userId = u)
           => IF \E t \in tasks : t.categoryId = id
              THEN /\ resp'.status = 400
                   /\ UNCHANGED <<categories, tasks>>
              ELSE /\ resp'.status = 200
                   /\ categories' = {c \in categories : c.id # id}
                   /\ UNCHANGED tasks

\* C11: deleteCategory by the owner of a category that at least one task
\* refers to is answered 400 and leaves the categories and the tasks as they
\* were; on a category that no task refers to (any more: its tasks were
\* deleted or moved to another category) it is answered 200 and removes
\* exactly that category.
DeleteCategoryGuarded == [][DeleteGuardedStep]_vars

\* the delete of a category holding a completed task was answered 400, and
\* the category and the task are still there
DeleteRefused ==
    /\ req.op = "deleteCategory" /\ resp.status = 400
    /\ \E c \in categories : c.id = req.args.id /\ c.userId = Caller
    /\ \E t \in tasks : t.categoryId = req.args.id /\ t.status = "COMPLETED"

\* the category that body names is not a category of user u
Unresolved(body, u) ==
    /\ Has(body, "categoryId")
    /\ ~\E c \in categories : c.id = body.categoryId /\ c.userId = u

\* what the check of category references requires of a step
CategoryCheckedStep ==
    LET u == protect(req'.header)
        body == req'.args.body
    IN  /\ (/\ Idle /\ req'.op = "createTask" /\ Has(req'.args, "body")
            /\ Unresolved(body, u))
           => /\ resp'.status = 400
              /\ UNCHANGED <<tasks, categories, nextTaskId>>
        /\ (/\ Idle /\ req'.op = "updateTask" /\ Has(req'.args, "body")
            /\ \E t \in tasks : t.id = req'.args.id /\ t.userId = u
            /\ Unresolved(body, u))
           => /\ resp'.status = 400
              /\ UNCHANGED <<tasks, categories, nextTaskId>>

\* C12: createTask, and updateTask of a task of the caller, with a
\* categoryId that names no category or a category of another user is
\* answered 400, not 500, and writes nothing: no task is created and the
\* task keeps every field.
CategoryReferenceChecked == [][CategoryCheckedStep]_vars

\* Bob's move of his task into a category of Alice was answered 400
ForeignCategoryRefused ==
    /\ req.op = "updateTask" /\ Caller = Bob
    /\ resp = badCategory
    /\ \E t \in tasks : t.id = req.args.id /\ t.userId = Bob
    /\ \E c \in categories : c.id = req.args.body.categoryId /\ c.userId = Alice

(***************************************************************************)
(* The gate specification: the same two users; clients send every kind of  *)
(* authorization header to every protected route, while the clock runs     *)
(* past the lifetime of the tokens.                                        *)
(***************************************************************************)
NextGate ==
    \/ GetCategories(Headers)
    \/ GetCategory(Headers)
    \/ CreateCategory(Headers, {[name |-> "Work"]})
    \/ UpdateCategory(Headers, {[name |-> "Home"]})
    \/ DeleteCategory(Headers)
    \/ GetTask(Headers)
    \/ CreateTask(Headers, {[title |-> Milk]})
    \/ UpdateTask(Headers, {[status |-> "COMPLETED"]})
    \/ DeleteTask(Headers)
    \/ GetTasks(Headers, {<<>>})
    \/ GetTaskStats(Headers)
    \/ GetMe
    \/ LoginWith({[email |-> "a@x.io", password |-> "secret1"]})
    \/ Reply
    \/ Tick

SpecGate == Init /\ [][NextGate]_vars

(***************************************************************************)
(* The gate in front of the handlers.                                      *)
(***************************************************************************)
TaskHandlers ==
    {"getTasks", "getTask", "createTask", "updateTask", "deleteTask", "getTaskStats"}
CategoryHandlers ==
    {"getCategories", "getCategory", "createCategory", "updateCategory",
     "deleteCategory"}
PublicHandlers == {"register", "login", "refreshToken"}

\* the header is missing or malformed, or verifyAccessToken rejects its token
Refused(header) ==
    \/ header.scheme # "Bearer"
    \/ ~verifyAccessToken(header.token).ok

\* what the gate requires of a step
GateStep ==
    /\ (/\ Idle
        /\ req'.op \in TaskHandlers \cup CategoryHandlers \cup {"getMe"}
        /\ Refused(req'.header))
       => /\ resp' = unauthenticated
          /\ req'.args = NoArgs
          /\ UNCHANGED storeVars
    /\ (Idle /\ req'.op # "none" /\ req'.header = NoHeader /\ resp' # unauthenticated)
       => req'.op \in PublicHandlers
    /\ (Idle /\ req'.op \in PublicHandlers)
       => resp' # unauthenticated /\ req'.args # NoArgs

\* C9: a request to a task handler, a category handler or getMe whose
\* authorization header is missing or malformed, or whose token
\* verifyAccessToken rejects, is answered 401 without the handler running
\* and with the database unchanged; only register, login and refresh answer
\* a request that carries no access token.
OnlyAuthenticatedReachHandlers == [][GateStep]_vars

\* a delete of an existing task, sent with an access token that has
\* expired, was answered 401 and the task is still there
ExpiredTokenTurnedAway ==
    /\ req.op = "deleteTask"
    /\ req.header.scheme = "Bearer" /\ req.header.token \in accessTokens
    /\ ~verifyAccessToken(req.header.token).ok
    /\ resp = unauthenticated
    /\ \E t \in tasks : t.userId = req.header.token.id

(***************************************************************************)
(* The query specification: the two users, signed in at second 1, one      *)
(* category each, and any table of up to MaxListed tasks created through   *)
(* the API at seconds 0 and 1; clients page through and count their tasks. *)
(***************************************************************************)
MaxListed == 2

\* what createTask (and updateTask) can have written into a task of userId
TaskShapes(userId) ==
    {[title |-> Milk, description |-> NullText, dueDate |-> NullDate,
      status |-> "PENDING", categoryId |-> NullId, createdAt |-> 0],
     [title |-> Report, description |-> Note, dueDate |-> 0,
      status |-> "IN_PROGRESS", categoryId |-> userId, createdAt |-> 1],
     [title |-> Milk, description |-> Note, dueDate |-> 0,
      status |-> "COMPLETED", categoryId |-> userId, createdAt |-> 0],
     [title |-> Report, description |-> NullText, dueDate |-> 2,
      status |-> "CANCELLED", categoryId |-> NullId, createdAt |-> 1]}

TaskRow(id, userId, shape) ==
    Merge(shape, [id |-> id, userId |-> userId, updatedAt |-> shape.createdAt])

InitQuery ==
    /\ env = [JWT_SECRET |-> AccessSecret, JWT_REFRESH_SECRET |-> RefreshSecret]
    /\ now = 1
    /\ users = {[id |-> Alice, name |-> "Al", email |-> "a@x.io",
                 password |-> bcryptHash("secret1"), createdAt |-> 0],
                [id |-> Bob, name |-> "Al", email |-> "b@x.io",
                 password |-> bcryptHash("secret1"), createdAt |-> 0]}
    /\ categories = {[id |-> u, name |-> "Work", color |-> DefaultColor, userId |-> u,
                      createdAt |-> 0, updatedAt |-> 0] : u \in {Alice, Bob}}
    /\ \E n \in 0..MaxListed :
          \E owner \in [1..n -> {Alice, Bob}] :
             \E shape \in [1..n -> UNION {TaskShapes(u) : u \in {Alice, Bob}}] :
                /\ \A i \in 1..n : shape[i] \in TaskShapes(owner[i])
                /\ tasks = {TaskRow(i, owner[i], shape[i]) : i \in 1..n}
                /\ nextTaskId = n + 1
    /\ nextUserId = 3 /\ nextCatId = 3
    /\ accessTokens = {generateAccessToken(u).token : u \in {Alice, Bob}}
    /\ refreshTokens = {generateRefreshToken(u).token : u \in {Alice, Bob}}
    /\ req = NoReq /\ resp = NoResp
    /\ pending = EmptyBag

NextQuery ==
    \/ GetTasks(SignedIn, TaskQueries)
    \/ GetTaskStats(SignedIn)
    \/ Reply

SpecQuery == InitQuery /\ [][NextQuery]_vars

(***************************************************************************)
(* Owner scoping of the list and of the statistics.                        *)
(***************************************************************************)
StatsCounts ==
    {"totalTasks", "pendingTasks", "inProgressTasks", "completedTasks", "overdueTasks"}

\* C3: whatever the status, categoryId, search, sortBy, sortOrder, page and
\* limit parameters, every task getTasks returns and every task its total
\* counts, and every task that any of the five counts of getTaskStats
\* counts, is a task of the authenticated user.
OwnerScoped ==
    /\ (req.op = "getTasks" /\ resp.status = 200)
       => /\ \A i \in DOMAIN resp.data.tasks :
                /\ resp.data.tasks[i].task.userId = Caller
                /\ resp.data.tasks[i].task \in tasks
          /\ \A t \in resp.data.counted : t.userId = Caller
          /\ resp.data.pagination.total = Cardinality(resp.data.counted)
    /\ (req.op = "getTaskStats" /\ resp.status = 200)
       => \A k \in StatsCounts :
             /\ \A t \in resp.data.counted[k] : t.userId = Caller
             /\ resp.data[k] = Cardinality(resp.data.counted[k])

\* a filtered list was answered with a task of the caller while a task of the
\* other user satisfied the same filters
FilterMatchesForeignTask ==
    /\ req.op = "getTasks" /\ resp.status = 200
    /\ Has(req.args.query, "status") /\ Has(req.args.query, "search")
    /\ Len(resp.data.tasks) >= 1
    /\ \E t \in tasks :
          /\ t.userId # Caller
          /\ Matches(t, TasksWhere(t.userId, req.args.query))

(***************************************************************************)
(* Pagination.                                                             *)
(***************************************************************************)
\* the page, limit, sort field and sort order of the list request being answered
PageAsked == IF Has(req.args.query, "page") THEN parseInt(req.args.query.page) ELSE Num(1)
LimitAsked == IF Has(req.args.query, "limit") THEN parseInt(req.args.query.limit) ELSE Num(10)
SortAsked == IF Has(req.args.query, "sortBy") THEN req.args.query.sortBy ELSE "createdAt"
OrderAsked == IF Has(req.args.query, "sortOrder") THEN req.args.query.sortOrder ELSE "desc"

\* the tasks of the caller that satisfy the filters of the request
Matching == {t \in tasks : Matches(t, TasksWhere(Caller, req.args.query))}

\* list is in the order asked for
InOrderAsked(list) ==
    \A i, j \in 1..Len(list) :
       i < j => IF OrderAsked = "asc" THEN ~ColumnLess(SortAsked, list[j], list[i])
                ELSE ~ColumnLess(SortAsked, list[i], list[j])

\* C14: for page >= 1 and limit >= 1, getTasks returns exactly the records at
\* offsets (page-1)*limit to page*limit-1 of the caller's matching tasks laid
\* out in the order asked for (creation time descending by default), with
\* total the number of all matching tasks and pages = ceil(total / limit);
\* a list of 25, page 2 and limit 10 give records 11 to 20 and 3 pages.
Paginated ==
    /\ (/\ req.op = "getTasks" /\ resp.status = 200
        /\ ~PageAsked.nan /\ ~LimitAsked.nan /\ PageAsked.n >= 1 /\ LimitAsked.n >= 1)
       => LET page == PageAsked.n
              limit == LimitAsked.n
              returned == resp.data.tasks
          IN  /\ \E list \in Perms(Matching) :
                    /\ InOrderAsked(list)
                    /\ Len(returned)
                          = Cardinality({k \in ((page - 1) * limit)..(page * limit - 1) :
                                            k < Len(list)})
                    /\ \A i \in 1..Len(returned) :
                          returned[i].task = list[(page - 1) * limit + i]
              /\ resp.data.pagination.total = Cardinality(Matching)
              /\ ~resp.data.pagination.pages.nan
              /\ resp.data.pagination.pages.n * limit >= Cardinality(Matching)
              /\ (resp.data.pagination.pages.n - 1) * limit < Cardinality(Matching)
    /\ LET page == parseInt(<<"2">>).n
           limit == parseInt(<<"1", "0">>).n
       IN  /\ Window([i \in 1..25 |-> i], (page - 1) * limit, limit)
                 = [i \in 1..10 |-> 10 + i]
           /\ Pages(25, limit) = Num(3)

\* page 2 of limit 1, in the default order, of two matching tasks was
\* answered with the older task, total 2 and 2 pages
SecondPageReturned ==
    /\ req.op = "getTasks" /\ resp.status = 200
    /\ Has(req.args.query, "page") /\ Has(req.args.query, "limit")
    /\ ~Has(req.args.query, "sortBy") /\ ~Has(req.args.query, "sortOrder")
    /\ Len(resp.data.tasks) = 1
    /\ resp.data.pagination.total = 2
    /\ resp.data.pagination.pages = Num(2)
    /\ \E t \in Matching : t.createdAt > resp.data.tasks[1].task.createdAt

(***************************************************************************)
(* The statistics specification: at second 1, the two users signed in and  *)
(* up to MaxListed pending tasks, due in the past, now, later or never;    *)
(* clients change the status of their tasks and ask for their statistics.  *)
(***************************************************************************)
DueDates == {0, 1, 2, NullDate}

PendingTask(id, userId, dueDate) ==
    [id |-> id, title |-> Milk, description |-> NullText, dueDate |-> dueDate,
     status |-> "PENDING", userId |-> userId, categoryId |-> NullId,
     createdAt |-> 0, updatedAt |-> 0]

InitStats ==
    /\ env = [JWT_SECRET |-> AccessSecret, JWT_REFRESH_SECRET |-> RefreshSecret]
    /\ now = 1
    /\ users = {[id |-> Alice, name |-> "Al", email |-> "a@x.io",
                 password |-> bcryptHash("secret1"), createdAt |-> 0],
                [id |-> Bob, name |-> "Al", email |-> "b@x.io",
                 password |-> bcryptHash("secret1"), createdAt |-> 0]}
    /\ categories = {}
    /\ \E n \in 0..MaxListed :
          \E owner \in [1..n -> {Alice, Bob}], due \in [1..n -> DueDates] :
             /\ tasks = {PendingTask(i, owner[i], due[i]) : i \in 1..n}
             /\ nextTaskId = n + 1
    /\ nextUserId = 3 /\ nextCatId = 1
    /\ accessTokens = {generateAccessToken(u).token : u \in {Alice, Bob}}
    /\ refreshTokens = {generateRefreshToken(u).token : u \in {Alice, Bob}}
    /\ req = NoReq /\ resp = NoResp
    /\ pending = EmptyBag

NextStats ==
    \/ GetTaskStats(SignedIn)
    \/ UpdateTask(SignedIn, {[status |-> st] : st \in Statuses})
    \/ Reply

SpecStats == InitStats /\ [][NextStats]_vars

(***************************************************************************)
(* The statistics.                                                         *)
(***************************************************************************)
\* the tasks of the caller with status st
OwnWithStatus(st) == {t \in tasks : t.userId = Caller /\ t.status = st}

\* the tasks of the caller that are overdue
OwnOverdue ==
    {t \in tasks : /\ t.userId = Caller
                   /\ t.dueDate # NullDate /\ t.dueDate < now
                   /\ t.status \notin {"COMPLETED", "CANCELLED"}}

\* C15: getTaskStats reports for the caller totalTasks = the number of their
\* tasks, pendingTasks, inProgressTasks and completedTasks = the number with
\* that status, and overdueTasks = the number whose due date is strictly
\* before the current time and whose status is neither COMPLETED nor
\* CANCELLED; a task without a due date is never counted as overdue.
StatsCounted ==
    (req.op = "getTaskStats" /\ resp.status = 200)
       => /\ resp.data.totalTasks = Cardinality({t \in tasks : t.userId = Caller})
          /\ resp.data.pendingTasks = Cardinality(OwnWithStatus("PENDING"))
          /\ resp.data.inProgressTasks = Cardinality(OwnWithStatus("IN_PROGRESS"))
          /\ resp.data.completedTasks = Cardinality(OwnWithStatus("COMPLETED"))
          /\ resp.data.overdueTasks = Cardinality(OwnOverdue)
          /\ \A t \in resp.data.counted.overdueTasks : t.dueDate # NullDate

\* of two past-due tasks of the caller, one pending and one since marked
\* completed, the statistics count one as overdue
CompletedNotOverdue ==
    /\ req.op = "getTaskStats" /\ resp.status = 200
    /\ resp.data.overdueTasks = 1
    /\ \E t1, t2 \in tasks :
          /\ t1.userId = Caller /\ t2.userId = Caller
          /\ t1.dueDate = 0 /\ t2.dueDate = 0
          /\ t1.status = "PENDING" /\ t2.status = "COMPLETED"

(***************************************************************************)
(* The input specification: the database of the query specification;      *)
(* clients send list requests with page, limit, status and sortBy values   *)
(* of every kind.                                                          *)
(***************************************************************************)
InputQueries ==
    {Merge(Merge(Merge(p, l), st), sb) :
        p \in Param("page", {<<"0">>, <<"x">>}),
        l \in Param("limit", {<<"0">>, <<"-", "1">>, <<"x">>}),
        st \in Param("status", {Eq("DONE")}),
        sb \in Param("sortBy", {"updatedAt", "priority"})}

NextInput ==
    \/ GetTasks(SignedIn, InputQueries)
    \/ Reply

SpecInput == InitQuery /\ [][NextInput]_vars

(***************************************************************************)
(* Validation of the list parameters.                                      *)
(***************************************************************************)
\* a list request got past protect
ListRequested == req.op = "getTasks" /\ Has(req.args, "query")

\* C16: a getTasks request whose sortBy is not createdAt, dueDate, title or
\* status is answered 400 by validation: it gets no page of tasks, in the
\* default order or any other, and no internal error from the database
\* client.
SortFieldValidated ==
    (/\ ListRequested
     /\ SortAsked \notin {"createdAt", "dueDate", "title", "status"})
       => resp.status = 400

\* the page or the limit asked for is not a number, or is below 1
PageOrLimitInvalid ==
    \/ PageAsked.nan \/ LimitAsked.nan
    \/ PageAsked.n < 1 \/ LimitAsked.n < 1

\* the status asked for is not in the enumeration
StatusInvalid ==
    /\ Has(req.args.query, "status")
    /\ ~StatusFilterOk(req.args.query.status)

\* C17: every page getTasks answers with was looked up with page >= 1 and
\* limit >= 1, has a number of pages that is a non-negative integer, and a
\* status filter that is absent or in the enumeration; a request with page
\* or limit below 1 or not a number, or with another status, is not handed
\* to the database client, neither to be answered with a page nor to fail
\* there.
LookupArgumentsValid ==
    /\ (ListRequested /\ resp.status = 200)
       => /\ resp.data.pagination.page >= 1
          /\ resp.data.pagination.limit >= 1
          /\ ~resp.data.pagination.pages.nan
          /\ resp.data.pagination.pages.n >= 0
          /\ ~StatusInvalid
    /\ (ListRequested /\ (PageOrLimitInvalid \/ StatusInvalid))
       => resp.status \notin {200, 500}

(***************************************************************************)
(* The handlers one database statement at a time.  A handler that has      *)
(* reached an await sits in pending with the statement it issues next; the *)
(* statements of the requests in flight interleave in any order.           *)
(***************************************************************************)
MaxInFlight == 2

\* the requests in flight to route op
InFlight(op) == {p \in BagToSet(pending) : p.op = op}

\* how many requests are in flight to route op
InFlightCount(op) == BagCardinality([p \in InFlight(op) |-> pending[p]])

\* the requests in flight to route op that issue statement pc next
At(op, pc) == {p \in InFlight(op) : p.pc = pc}

\* the request is answered without a further statement
Answer(op, header, args, res) ==
    /\ Respond(op, header, args, res)
    /\ UNCHANGED <<pending, categories, tasks, nextCatId, nextTaskId>>

\* the handler awaits its first statement, pc
Await(op, header, args, pc) ==
    /\ pending' = pending (+) SetToBag({[op |-> op, header |-> header,
                                         userId |-> protect(header),
                                         args |-> args, pc |-> pc]})
    /\ UNCHANGED <<req, resp, categories, tasks, nextCatId, nextTaskId>>

\* a request arrives: protect, validate, then the handler up to its first await
Arrive(op, header, args, valid, pc) ==
    /\ BagCardinality(pending) < MaxInFlight
    /\ IF Rejected(op, header) THEN Answer(op, header, NoArgs, unauthenticated)
       ELSE IF ~valid THEN Answer(op, header, args, validationError)
       ELSE Await(op, header, args, pc)
    /\ UNCHANGED <<env, now, users, nextUserId, accessTokens, refreshTokens>>

\* the statement of p is done and the handler awaits statement pc
Goto(p, pc) ==
    /\ pending' = (pending (-) SetToBag({p})) (+) SetToBag({[p EXCEPT !.pc = pc]})
    /\ UNCHANGED <<req, resp, categories, tasks, nextCatId, nextTaskId>>
    /\ UNCHANGED <<env, now, users, nextUserId, accessTokens, refreshTokens>>

\* the handler of p answers res, the tables being T and C after its statement
Finish(p, res, T, C) ==
    /\ Respond(p.op, p.header, p.args, res)
    /\ pending' = pending (-) SetToBag({p})
    /\ tasks' = T
    /\ categories' = C
    /\ nextCatId' = IF \E c \in C : c.id = nextCatId THEN nextCatId + 1 ELSE nextCatId
    /\ nextTaskId' = IF \E t \in T : t.id = nextTaskId THEN nextTaskId + 1 ELSE nextTaskId
    /\ UNCHANGED <<env, now, users, nextUserId, accessTokens, refreshTokens>>

\* the foreign key of Task.categoryId: null, or the id of a category
CategoryKeyHolds(categoryId, C) == categoryId = NullId \/ \E c \in C : c.id = categoryId

CreateCategoryArrive(H, B) ==
    /\ nextCatId + InFlightCount("createCategory") <= MaxCats
    /\ \E h \in H, body \in B :
          Arrive("createCategory", h, [body |-> body], createCategorySchema(body), "find")

\* category.findFirst({where: {name, userId}})
CreateCategoryFind ==
    \E p \in At("createCategory", "find") :
       IF CategoryNamed(categories, p.args.body.name, p.userId) # {}
       THEN Finish(p, nameTaken, tasks, categories)
       ELSE Goto(p, "create")

\* category.create
CreateCategoryCreate ==
    \E p \in At("createCategory", "create") :
       LET body == p.args.body
           c == [id |-> nextCatId, name |-> body.name,
                 color |-> IF Truthy(body, "color") THEN body.color ELSE DefaultColor,
                 userId |-> p.userId, createdAt |-> now, updatedAt |-> now]
       IN  Finish(p, Res(201, "Category created successfully",
                         [kind |-> "category", category |-> WithCount(c, tasks)]),
                  tasks, categories \cup {c})

UpdateCategoryArrive(H, B) ==
    \E h \in H, id \in CatIds, body \in B :
       Arrive("updateCategory", h, [id |-> id, body |-> body],
              updateCategorySchema(body), "find")

\* category.findFirst({where: {id, userId}}), then "name !== existingCategory.name"
UpdateCategoryFind ==
    \E p \in At("updateCategory", "find") :
       IF CategoryOf(categories, p.args.id, p.userId) = {}
       THEN Finish(p, categoryNotFound, tasks, categories)
       ELSE LET existingCategory ==
                    CHOOSE x \in CategoryOf(categories, p.args.id, p.userId) : TRUE
            IN  IF /\ Truthy(p.args.body, "name")
                   /\ p.args.body.name # existingCategory.name
                THEN Goto(p, "conflict")
                ELSE Goto(p, "update")

\* category.findFirst({where: {name, userId, id: {not: id}}})
UpdateCategoryConflict ==
    \E p \in At("updateCategory", "conflict") :
       IF \E c \in CategoryNamed(categories, p.args.body.name, p.userId) : c.id # p.args.id
       THEN Finish(p, nameTaken, tasks, categories)
       ELSE Goto(p, "update")

\* category.update({where: {id}}): throws when the row is gone
UpdateCategoryUpdate ==
    \E p \in At("updateCategory", "update") :
       IF ~\E x \in categories : x.id = p.args.id
       THEN Finish(p, internalError, tasks, categories)
       ELSE LET body == p.args.body
                c == [(CHOOSE x \in categories : x.id = p.args.id) EXCEPT
                         !.name = IF Truthy(body, "name") THEN body.name ELSE @,
                         !.color = IF Truthy(body, "color") THEN body.color ELSE @,
                         !.updatedAt = now]
            IN  Finish(p, Res(200, "Category updated successfully",
                              [kind |-> "category", category |-> WithCount(c, tasks)]),
                       tasks, {IF x.id = p.args.id THEN c ELSE x : x \in categories})

DeleteCategoryArrive(H) ==
    \E h \in H, id \in CatIds :
       Arrive("deleteCategory", h, [id |-> id], TRUE, "find")

\* category.findFirst({where: {id, userId}})
DeleteCategoryFind ==
    \E p \in At("deleteCategory", "find") :
       IF CategoryOf(categories, p.args.id, p.userId) = {}
       THEN Finish(p, categoryNotFound, tasks, categories)
       ELSE Goto(p, "count")

\* task.count({where: {categoryId: id}})
DeleteCategoryCount ==
    \E p \in At("deleteCategory", "count") :
       IF TaskCount(tasks, p.args.id) > 0
       THEN Finish(p, Res(400, "Cannot delete category. It has associated tasks.",
                          [kind |-> "count", count |-> TaskCount(tasks, p.args.id)]),
                   tasks, categories)
       ELSE Goto(p, "delete")

\* category.delete({where: {id}}): throws when the row is gone; onDelete:
\* SetNull on the tasks of the category
DeleteCategoryDelete ==
    \E p \in At("deleteCategory", "delete") :
       IF ~\E x \in categories : x.id = p.args.id
       THEN Finish(p, internalError, tasks, categories)
       ELSE Finish(p, Res(200, "Category deleted successfully", NoData),
                   {IF t.categoryId = p.args.id THEN [t EXCEPT !.categoryId = NullId]
                    ELSE t : t \in tasks},
                   {c \in categories : c.id # p.args.id})

CreateTaskArrive(H, B) ==
    /\ nextTaskId + InFlightCount("createTask") <= MaxTasks
    /\ \E h \in H, body \in B :
          Arrive("createTask", h, [body |-> body], createTaskSchema(body),
                 IF Truthy(body, "categoryId") THEN "category" ELSE "create")

\* category.findFirst({where: {id: categoryId, userId}})
CreateTaskCategory ==
    \E p \in At("createTask", "category") :
       IF CategoryOf(categories, p.args.body.categoryId, p.userId) = {}
       THEN Finish(p, badCategory, tasks, categories)
       ELSE Goto(p, "create")

\* task.create: throws when categoryId names no category
CreateTaskCreate ==
    \E p \in At("createTask", "create") :
       LET body == p.args.body
           t == [id |-> nextTaskId,
                 title |-> body.title,
                 description |-> IF Has(body, "description") THEN body.description
                                 ELSE NullText,
                 dueDate |-> IF Truthy(body, "dueDate") THEN body.dueDate ELSE NullDate,
                 status |-> IF Truthy(body, "status") THEN body.status ELSE "PENDING",
                 userId |-> p.userId,
                 categoryId |-> IF Has(body, "categoryId") THEN body.categoryId
                                ELSE NullId,
                 createdAt |-> now, updatedAt |-> now]
       IN  IF ~CategoryKeyHolds(t.categoryId, categories)
           THEN Finish(p, internalError, tasks, categories)
           ELSE Finish(p, Res(201, "Task created successfully",
                              [kind |-> "task", task |-> WithCategory(t, categories)]),
                       tasks \cup {t}, categories)

UpdateTaskArrive(H, B) ==
    \E h \in H, id \in TaskIds, body \in B :
       Arrive("updateTask", h, [id |-> id, body |-> body], updateTaskSchema(body), "find")

\* task.findFirst({where: {id, userId}})
UpdateTaskFind ==
    \E p \in At("updateTask", "find") :
       IF TaskOf(tasks, p.args.id, p.userId) = {}
       THEN Finish(p, taskNotFound, tasks, categories)
       ELSE IF Truthy(p.args.body, "categoryId") THEN Goto(p, "category")
       ELSE Goto(p, "update")

\* category.findFirst({where: {id: categoryId, userId}})
UpdateTaskCategory ==
    \E p \in At("updateTask", "category") :
       IF CategoryOf(categories, p.args.body.categoryId, p.userId) = {}
       THEN Finish(p, badCategory, tasks, categories)
       ELSE Goto(p, "update")

\* task.update({where: {id}}): throws when the row is gone or categoryId
\* names no category
UpdateTaskUpdate ==
    \E p \in At("updateTask", "update") :
       LET body == p.args.body
           categoryId == IF Has(body, "categoryId") THEN body.categoryId ELSE NullId
       IN  IF \/ ~\E x \in tasks : x.id = p.args.id
              \/ ~CategoryKeyHolds(categoryId, categories)
           THEN Finish(p, internalError, tasks, categories)
           ELSE LET t == [(CHOOSE x \in tasks : x.id = p.args.id) EXCEPT
                             !.title = IF Truthy(body, "title") THEN body.title ELSE @,
                             !.description = IF Has(body, "description")
                                             THEN body.description ELSE @,
                             !.dueDate = IF Has(body, "dueDate") THEN body.dueDate ELSE @,
                             !.status = IF Truthy(body, "status") THEN body.status ELSE @,
                             !.categoryId = IF Has(body, "categoryId")
                                            THEN body.categoryId ELSE @,
                             !.updatedAt = now]
                IN  Finish(p, Res(200, "Task updated successfully",
                                  [kind |-> "task", task |-> WithCategory(t, categories)]),
                           {IF x.id = p.args.id THEN t ELSE x : x \in tasks}, categories)

DeleteTaskArrive(H) ==
    \E h \in H, id \in TaskIds :
       Arrive("deleteTask", h, [id |-> id], TRUE, "find")

\* task.findFirst({where: {id, userId}})
DeleteTaskFind ==
    \E p \in At("deleteTask", "find") :
       IF TaskOf(tasks, p.args.id, p.userId) = {}
       THEN Finish(p, taskNotFound, tasks, categories)
       ELSE Goto(p, "delete")

\* task.delete({where: {id}}): throws when the row is gone
DeleteTaskDelete ==
    \E p \in At("deleteTask", "delete") :
       IF ~\E x \in tasks : x.id = p.args.id
       THEN Finish(p, internalError, tasks, categories)
       ELSE Finish(p, Res(200, "Task deleted successfully", NoData),
                   {t \in tasks : t.id # p.args.id}, categories)

(***************************************************************************)
(* The concurrent specification: the two signed-in users of Init, up to    *)
(* MaxInFlight requests to the category and task routes in flight.         *)
(***************************************************************************)
RaceCategoryBodies == {[name |-> "Work"], [name |-> "Home"]}
RaceCreateTaskBodies == {[title |-> Milk]} \cup {[title |-> Milk, categoryId |-> c] : c \in CatIds}
RaceUpdateTaskBodies == {[categoryId |-> c] : c \in CatIds}

NextRace ==
    \/ CreateCategoryArrive(SignedIn, RaceCategoryBodies)
    \/ CreateCategoryFind
    \/ CreateCategoryCreate
    \/ UpdateCategoryArrive(SignedIn, {[name |-> "Work"]})
    \/ UpdateCategoryFind
    \/ UpdateCategoryConflict
    \/ UpdateCategoryUpdate
    \/ DeleteCategoryArrive(SignedIn)
    \/ DeleteCategoryFind
    \/ DeleteCategoryCount
    \/ DeleteCategoryDelete
    \/ CreateTaskArrive(SignedIn, RaceCreateTaskBodies)
    \/ CreateTaskCategory
    \/ CreateTaskCreate
    \/ UpdateTaskArrive(SignedIn, RaceUpdateTaskBodies)
    \/ UpdateTaskFind
    \/ UpdateTaskCategory
    \/ UpdateTaskUpdate
    \/ DeleteTaskArrive(SignedIn)
    \/ DeleteTaskFind
    \/ DeleteTaskDelete

SpecRace == Init /\ [][NextRace]_vars

(***************************************************************************)
(* Category references and category names under concurrency.               *)
(***************************************************************************)
\* C13: in every reachable state, whatever requests to the task and category
\* routes the users have sent and however their statements interleaved, the
\* categoryId of each task is null or the id of an existing category of the
\* owner of the task.
CategoryReferencesOwned ==
    \A t \in tasks :
       \/ t.categoryId = NullId
       \/ \E c \in categories : c.id = t.categoryId /\ c.userId = t.userId

\* Bob's task sits in a category of Bob after his request to move it into a
\* category of Alice was answered 400, another request being in flight
TaskKeptInOwnCategory ==
    /\ req.op = "updateTask" /\ Caller = Bob /\ resp = badCategory
    /\ \E c \in categories : c.id = req.args.body.categoryId /\ c.userId = Alice
    /\ \E t \in tasks :
          /\ t.id = req.args.id /\ t.userId = Bob
          /\ \E c \in categories : c.id = t.categoryId /\ c.userId = Bob
    /\ pending # EmptyBag

\* C20: in no reachable state, whatever createCategory and updateCategory
\* requests of one user are in flight together, do two categories of one
\* owner have the same name.
NoTwoCategoriesOfOneName ==
    \A c1, c2 \in categories :
       (c1.userId = c2.userId /\ c1.name = c2.name) => c1 = c2

\* what the guard on deleting a category requires of a step under concurrency
UnreferencedWhenDeletedStep ==
    \A c \in categories :
       (~\E x \in categories' : x.id = c.id)
          => /\ ~\E t \in tasks : t.categoryId = c.id
             /\ \A t \in tasks, t2 \in tasks' :
                   t2.id = t.id => t2.categoryId = t.categoryId

\* C21: however the statements of deleteCategory, createTask and updateTask
\* requests of one owner interleave, a category is removed only in a state
\* where no task refers to it, so that the removal clears the categoryId of
\* no task.
DeletedOnlyWhenUnreferenced == [][UnreferencedWhenDeletedStep]_vars
====
